---- MODULE Spec2Model ----
(***************************************************************************)
(* A model of the NameRes lookup service (src/api/server.py): the lookup   *)
(* coroutine, its query construction, the projection of the Solr response  *)
(* into LookupResult records, and the bulk_lookup loop around it.          *)
(*                                                                         *)
(* Text is a sequence of characters, each character a one-character        *)
(* string; the four "smart" quotes are the tokens LDQUO, RDQUO, LSQUO and  *)
(* RSQUO.  A Python dict is a function whose DOMAIN is its key set; an     *)
(* Optional value is a sequence of length 0 (None) or 1.                   *)
(***************************************************************************)
EXTENDS Integers, Sequences, FiniteSets, TLC

VARIABLES
    pc,              \* position of the request handler
    req,             \* the parameters the endpoint was called with
    idx,             \* bulk_lookup: index of the string being looked up
    frame,           \* locals of the running lookup coroutine, live across its await
    sent,            \* the requests posted to Solr, in order
    resp,            \* the Solr response the coroutine is resumed with
    result,          \* bulk_lookup: the dict it fills, one entry per string
    reply,           \* the value the handler returned, None until it returns
    returned,        \* the value each finished lookup call returned, in call order
    error,           \* the exception a failed handler ended with
    pydanticCopies,  \* does LookupResult validation copy a dict field (v2) or keep the reference (v1)
    tasks            \* the lookup coroutines running concurrently on the event loop, each with its own locals

vars == <<pc, req, idx, frame, sent, resp, result, reply, returned, error, pydanticCopies, tasks>>

-----------------------------------------------------------------------------
(* Bounds of the model. *)

MaxLen == 3          \* longest search text of the query-construction specification
MaxStrings == 3      \* longest strings list of a bulk request
MaxDocs == 2         \* most documents in one Solr response
MaxCuries == 2       \* longest list of CURIEs given to the reverse lookup
MaxLimit == 3        \* largest limit of the paging specification
MaxOffset == 2       \* largest offset of the paging specification
NumTasks == 2        \* lookup coroutines running concurrently
MaxTypes == 2        \* longest biolink_type list of the filter-construction specification

-----------------------------------------------------------------------------
(* Python values. *)

EmptyDict == [k \in {} |-> TRUE]
None == <<>>
Some(v) == <<v>>
Has(d, k) == k \in DOMAIN d
Get(d, k, default) == IF k \in DOMAIN d THEN d[k] ELSE default
SetItem(d, k, v) == [x \in DOMAIN d \cup {k} |-> IF x = k THEN v ELSE d[x]]

ToSet(s) == {s[i] : i \in 1..Len(s)}

RECURSIVE SeqProduct(_)
SeqProduct(sets) ==
    IF sets = <<>> THEN {<<>>}
    ELSE {<<h>> \o t : h \in Head(sets), t \in SeqProduct(Tail(sets))}

SeqsUpTo(S, n) == UNION {[1..k -> S] : k \in 0..n}

-----------------------------------------------------------------------------
(* Characters. *)

Whitespace == {" ", "\t", "\n"}

ord(c) ==
    CASE c = "\t" -> 9
      [] c = "\n" -> 10
      [] c = " " -> 32
      [] c = "!" -> 33
      [] c = "\"" -> 34
      [] c = "&" -> 38
      [] c = "'" -> 39
      [] c = "(" -> 40
      [] c = ")" -> 41
      [] c = "*" -> 42
      [] c = "+" -> 43
      [] c = "," -> 44
      [] c = "-" -> 45
      [] c = "." -> 46
      [] c = "/" -> 47
      [] c = "1" -> 49
      [] c = ":" -> 58
      [] c = ";" -> 59
      [] c = "<" -> 60
      [] c = "=" -> 61
      [] c = ">" -> 62
      [] c = "?" -> 63
      [] c = "@" -> 64
      [] c = "A" -> 65
      [] c = "B" -> 66
      [] c = "[" -> 91
      [] c = "\\" -> 92
      [] c = "]" -> 93
      [] c = "^" -> 94
      [] c = "a" -> 97
      [] c = "b" -> 98
      [] c = "{" -> 123
      [] c = "|" -> 124
      [] c = "}" -> 125
      [] c = "~" -> 126
      [] c = "LSQUO" -> 8216
      [] c = "RSQUO" -> 8217
      [] c = "LDQUO" -> 8220
      [] c = "RDQUO" -> 8221

lower_char(c) ==
    CASE c = "A" -> "a"
      [] c = "B" -> "b"
      [] OTHER -> c

smart_quote_char(c) ==
    CASE c \in {"LDQUO", "RDQUO"} -> "\""
      [] c \in {"LSQUO", "RSQUO"} -> "'"
      [] OTHER -> c

-----------------------------------------------------------------------------
(* str methods and re.sub, as lookup uses them. *)

RECURSIVE lstrip(_)
lstrip(s) == IF s # <<>> /\ Head(s) \in Whitespace THEN lstrip(Tail(s)) ELSE s

RECURSIVE rstrip(_)
rstrip(s) ==
    IF s # <<>> /\ s[Len(s)] \in Whitespace THEN rstrip(SubSeq(s, 1, Len(s) - 1)) ELSE s

strip(s) == rstrip(lstrip(s))

lower(s) == [i \in 1..Len(s) |-> lower_char(s[i])]

\* str.replace(old, new): the occurrences of old, left to right, not overlapping.
RECURSIVE replace(_, _, _)
replace(s, old, new) ==
    IF Len(s) < Len(old) THEN s
    ELSE IF SubSeq(s, 1, Len(old)) = old
    THEN new \o replace(SubSeq(s, Len(old) + 1, Len(s)), old, new)
    ELSE <<Head(s)>> \o replace(Tail(s), old, new)

\* re.sub(r"[...]", '"', re.sub(r"[...]", "'", string_lc))
replace_smart_quotes(s) == [i \in 1..Len(s) |-> smart_quote_char(s[i])]

normalize(string) == replace_smart_quotes(lower(strip(string)))

\* The character class [!(){}\[\]^"~*?:/+-\\] : inside the brackets +-\\ is the
\* range from "+" to the backslash.
EscapeClassListed == {"!", "(", ")", "{", "}", "[", "]", "^", "\"", "~", "*", "?", ":", "/"}

BrokenRangeEscapeClass(c) == c \in EscapeClassListed \cup {"+", "\\"}

InEscapeClass(c) ==
    \/ c \in EscapeClassListed
    \/ ord("+") <= ord(c) /\ ord(c) <= ord("\\")

\* re.sub(class, r'\\\g<0>', s): a backslash before every character of the class.
RECURSIVE re_sub_escape(_)
re_sub_escape(s) ==
    IF s = <<>> THEN <<>>
    ELSE (IF InEscapeClass(Head(s)) THEN <<"\\", Head(s)>> ELSE <<Head(s)>>)
         \o re_sub_escape(Tail(s))

escape_groupings(string_lc) == replace(replace(string_lc, <<"\"">>, <<>>), <<"\\">>, <<>>)

escape_everything(string_lc) ==
    replace(replace(re_sub_escape(string_lc), <<"&", "&">>, <<" ">>), <<"|", "|">>, <<" ">>)

AlwaysStarQuery(groupings, everything, autocomplete) ==
    <<"\"">> \o groupings \o <<"\"", " ", "O", "R", " ", "(">> \o everything \o <<"*", ")">>

compose_query(groupings, everything, autocomplete) ==
    IF autocomplete
    THEN <<"\"">> \o groupings \o <<"\"", " ", "O", "R", " ", "(">> \o everything \o <<"*", ")">>
    ELSE <<"\"">> \o groupings \o <<"\"", " ", "O", "R", " ", "(">> \o everything \o <<")">>

-----------------------------------------------------------------------------
(* The filter clauses of lookup, lines 418-460. *)

L_biolink == <<"b", "i", "o", "l", "i", "n", "k", ":">>
L_types == <<"t", "y", "p", "e", "s", ":">>
L_OR == <<" ", "O", "R", " ">>
L_AND == <<" ", "A", "N", "D", " ">>
L_curie == <<"c", "u", "r", "i", "e", ":", "/">>
L_NOT_curie == <<"N", "O", "T", " ", "c", "u", "r", "i", "e", ":", "/">>
L_any == <<":", ".", "*", "/">>
L_taxa == <<"t", "a", "x", "a", ":", "\"">>
L_quote == <<"\"">>
L_taxon_specific == <<"t", "a", "x", "o", "n", "_", "s", "p", "e", "c", "i", "f", "i", "c", ":", "f", "a", "l", "s", "e">>

startswith(s, prefix) == Len(s) >= Len(prefix) /\ SubSeq(s, 1, Len(prefix)) = prefix

\* sep.join(items)
RECURSIVE join(_, _)
join(sep, items) ==
    IF items = <<>> THEN <<>>
    ELSE IF Len(items) = 1 THEN items[1]
    ELSE items[1] \o sep \o join(sep, Tail(items))

\* s.split(c) for one character c
RECURSIVE split(_, _)
split(s, c) ==
    IF \A i \in 1..Len(s) : s[i] # c THEN <<s>>
    ELSE LET i == CHOOSE k \in 1..Len(s) : s[k] = c /\ \A j \in 1..(k - 1) : s[j] # c
         IN <<SubSeq(s, 1, i - 1)>> \o split(SubSeq(s, i + 1, Len(s)), c)

\* re.split('\\s*\\|\\s*', s): the pieces between the pipes, the whitespace next to
\* a pipe being part of the separator.
re_split(s) ==
    LET parts == split(s, "|")
    IN [i \in 1..Len(parts) |->
           LET left == IF i > 1 THEN lstrip(parts[i]) ELSE parts[i]
           IN IF i < Len(parts) THEN rstrip(left) ELSE left]

KeepBiolinkPrefix(biolink_type_stripped) == biolink_type_stripped

\* lines 427-428
remove_biolink(biolink_type_stripped) ==
    IF startswith(biolink_type_stripped, L_biolink)
    THEN SubSeq(biolink_type_stripped, Len(L_biolink) + 1, Len(biolink_type_stripped))
    ELSE biolink_type_stripped

\* lines 423-429: the terms of the non-blank types, in input order
RECURSIVE biolink_types_filters(_)
biolink_types_filters(biolink_types) ==
    IF biolink_types = <<>> THEN <<>>
    ELSE (IF strip(Head(biolink_types)) # <<>>
          THEN <<L_types \o remove_biolink(strip(Head(biolink_types)))>>
          ELSE <<>>)
         \o biolink_types_filters(Tail(biolink_types))

\* `if only_prefixes:` and the like: None and "" are falsy
truthy(optional_string) == optional_string # None /\ optional_string[1] # <<>>

prefix_filters(only_prefixes) ==
    LET parts == re_split(only_prefixes)
    IN [i \in 1..Len(parts) |-> L_curie \o parts[i] \o L_any]

prefix_exclude_filters(exclude_prefixes) ==
    LET parts == re_split(exclude_prefixes)
    IN [i \in 1..Len(parts) |-> L_NOT_curie \o parts[i] \o L_any]

taxa_filters(only_taxa) ==
    LET taxon_ids == re_split(only_taxa)
    IN [i \in 1..Len(taxon_ids) |-> L_taxa \o taxon_ids[i] \o L_quote]
       \o <<L_taxon_specific>>

\* lines 419-460: filters
build_filters(biolink_types, only_prefixes, exclude_prefixes, only_taxa) ==
    (IF biolink_types # <<>>
     THEN <<join(L_OR, biolink_types_filters(biolink_types))>> ELSE <<>>)
    \o (IF truthy(only_prefixes)
        THEN <<join(L_OR, prefix_filters(only_prefixes[1]))>> ELSE <<>>)
    \o (IF truthy(exclude_prefixes)
        THEN <<join(L_AND, prefix_exclude_filters(exclude_prefixes[1]))>> ELSE <<>>)
    \o (IF truthy(only_taxa)
        THEN <<(<<"(">> \o join(L_OR, taxa_filters(only_taxa[1])) \o <<")">>)>> ELSE <<>>)

DefaultPaging(query, limit, offset, filters, inner) ==
    [query |-> query, limit |-> 10, offset |-> 0, filter |-> filters, params |-> inner]

\* lines 479-504: params (the fixed qf, pf, boost, sort and fields left out)
solr_params(query, limit, offset, filters, inner) ==
    [query |-> query, limit |-> limit, offset |-> offset, filter |-> filters, params |-> inner]

HighlightParams ==
    [k \in {"hl", "hl.method", "hl.encoder", "hl.tag.pre", "hl.tag.post"} |->
        CASE k = "hl" -> "true"
          [] k = "hl.method" -> "unified"
          [] k = "hl.encoder" -> "html"
          [] k = "hl.tag.pre" -> "<strong>"
          [] k = "hl.tag.post" -> "</strong>"]

\* `if debug and debug != 'none'`: None is falsy.
inner_params(highlighting, debug) ==
    (IF highlighting THEN HighlightParams ELSE EmptyDict)
    @@ (IF debug # None /\ debug # Some("none") THEN [debug |-> debug[1]] ELSE EmptyDict)

-----------------------------------------------------------------------------
(* The Solr responses the model draws from. *)

DebugOptions == {"none", "query", "timing", "results", "all"}

Doc1 ==
    [id |-> "d1", curie |-> "MONDO:1", preferred_name |-> "alpha",
     names |-> <<"alpha", "a">>, taxa |-> <<"NCBITaxon:9606">>, types |-> <<"Disease">>,
     clique_identifier_count |-> 3, score |-> 30]
Doc2 == [id |-> "d2", score |-> 20]
Doc3 ==
    [id |-> "d3", curie |-> "HP:3", preferred_name |-> "beta", names |-> <<"beta">>,
     clique_identifier_count |-> 1, score |-> 10]
DocPool == {Doc1, Doc2, Doc3}

DocSeqs ==
    {s \in SeqsUpTo(DocPool, MaxDocs) : \A i, j \in 1..Len(s) : i # j => s[i] # s[j]}

HighlightingA ==
    [d1 |-> [preferred_name_exactish |-> <<"x">>, preferred_name |-> <<"y", "x", "">>,
             names_exactish |-> <<"s">>, names |-> <<"t", "t">>]]
HighlightingB ==
    [d1 |-> [preferred_name |-> <<"y">>],
     d2 |-> [preferred_name_exactish |-> <<"x">>, names |-> <<"", "t">>]]
HighlightingParts ==
    {EmptyDict, [highlighting |-> HighlightingA], [highlighting |-> HighlightingB]}

DebugParts ==
    {EmptyDict,
     [debug |-> [timing |-> "t"]],
     [debug |-> [timing |-> "t", explain |-> [d1 |-> "e1"]]],
     [debug |-> [explain |-> [d2 |-> "e2"]]],
     [debug |-> [explain |-> [d1 |-> "e1", d2 |-> "e2"]]]}

ErrorStatuses == {301, 503}

ErrorResponses ==
    {[status_code |-> st, json |-> [error |-> [code |-> st]]] : st \in ErrorStatuses}

OkResponses(hlParts, debugParts) ==
    {[status_code |-> 200, json |-> [response |-> [docs |-> ds]] @@ h @@ g] :
        ds \in DocSeqs, h \in hlParts, g \in debugParts}

\* Documents that lack any of the fields the projection reads with doc.get.
OptionalFields ==
    {"curie", "preferred_name", "names", "taxa", "types", "clique_identifier_count", "score"}

SparseDocs == {[k \in {"id"} \cup fields |-> Doc1[k]] : fields \in SUBSET OptionalFields}

SparseResponsePool ==
    {[status_code |-> 200, json |-> [response |-> [docs |-> <<doc>>]]] : doc \in SparseDocs}

ResponsePool == ErrorResponses \cup OkResponses(HighlightingParts, DebugParts)

BulkResponsePool ==
    ErrorResponses
    \cup {[status_code |-> 200, json |-> [response |-> [docs |-> ds]] @@ g] :
            ds \in {<<>>, <<Doc1>>, <<Doc2, Doc1>>},
            g \in {EmptyDict, [debug |-> [explain |-> [d1 |-> "e1"]]]}}

-----------------------------------------------------------------------------
(* Projection of the response into LookupResult records. *)

Placeholder == [k \in {"_comment"} |-> "Removed to avoid data duplication"]

\* The lists a set can be turned into: list(set(...)) fixes no order.
SetOrders(S) ==
    {f \in [1..Cardinality(S) -> S] : \A i, j \in 1..Cardinality(S) : i # j => f[i] # f[j]}

NonEmpty(s) == s # ""

\* lines 536-539 and 545-548: the exactish fragments, then the plain ones.
extend_matches(matches, exactish, plain) ==
    Get(matches, exactish, <<>>) \o Get(matches, plain, <<>>)

doc_matches(doc, highlighting_response, exactish, plain) ==
    IF Has(highlighting_response, doc["id"])
    THEN extend_matches(highlighting_response[doc["id"]], exactish, plain)
    ELSE <<>>

\* list(filter(lambda s: s, set(matches))), the set iterated in the order `order`.
filter_set(order) == SelectSeq(order, NonEmpty)

\* The iteration orders of the two sets of one document.
DocOrders(doc, highlighting_response) ==
    SetOrders(ToSet(doc_matches(doc, highlighting_response,
                                "preferred_name_exactish", "preferred_name")))
    \X SetOrders(ToSet(doc_matches(doc, highlighting_response, "names_exactish", "names")))

OrderChoices(docs, highlighting_response) ==
    SeqProduct([i \in 1..Len(docs) |-> DocOrders(docs[i], highlighting_response)])

AlwaysHighlighting(highlighting, preferred_matches, synonym_matches) ==
    [labels |-> preferred_matches, synonyms |-> synonym_matches]

result_highlighting(highlighting, preferred_matches, synonym_matches) ==
    IF highlighting
    THEN [labels |-> preferred_matches, synonyms |-> synonym_matches]
    ELSE EmptyDict

ExplainAtAnyLevel(debug, doc, explain_info) == Has(explain_info, doc["id"])

\* lines 556-557: does this document get its explain entry?
has_explain(debug, doc, explain_info) ==
    debug \in {Some("results"), Some("all")} /\ Has(explain_info, doc["id"])

KeepExplain(response_debug) == response_debug

\* debug_for_this_request['explain'] = {"_comment": "Removed to avoid data duplication"}
remove_explain(response_debug) == Some(SetItem(response_debug[1], "explain", Placeholder))

\* score: float of LookupResult, given doc.get("score", ""): a number validates,
\* the default "" of an absent score does not.
valid_score(doc) == Has(doc, "score")

LookupResult(doc, highlighting, preferred_matches, synonym_matches, explain, debug) ==
    [curie |-> Get(doc, "curie", ""),
     label |-> Get(doc, "preferred_name", ""),
     highlighting |-> result_highlighting(highlighting, preferred_matches, synonym_matches),
     synonyms |-> Get(doc, "names", <<>>),
     score |-> Get(doc, "score", ""),
     taxa |-> Get(doc, "taxa", <<>>),
     clique_identifier_count |-> Get(doc, "clique_identifier_count", 0),
     types |-> [i \in 1..Len(Get(doc, "types", <<>>)) |-> <<"biolink:", doc["types"][i]>>],
     explain |-> explain,
     debug |-> debug]

\* The loop of lines 528-576 from document i on.  response_debug is the value of
\* response.get('debug', None), one dict that every iteration reads and writes.
RECURSIVE project_docs(_, _, _, _)
project_docs(i, outputs, response_debug, c) ==
    IF i > Len(c.docs) THEN [outputs |-> outputs, response_debug |-> response_debug]
    ELSE LET doc == c.docs[i]
             explained == has_explain(c.debug, doc, c.explain_info)
             explain_for_this_doc ==
                 IF explained THEN Some(c.explain_info[doc["id"]]) ELSE None
             debug_for_this_request ==
                 IF explained THEN remove_explain(response_debug) ELSE response_debug
             out == LookupResult(doc, c.highlighting,
                                 filter_set(c.orders[i][1]), filter_set(c.orders[i][2]),
                                 explain_for_this_doc, debug_for_this_request)
         IN project_docs(i + 1, Append(outputs, out), debug_for_this_request, c)

\* What the caller sees: a LookupResult that kept the reference to the response's
\* debug dict shows that dict as the loop left it.
project(json, rq, orders, copies) ==
    LET explain_info ==
            IF Has(json, "debug") /\ Has(json["debug"], "explain")
            THEN json["debug"]["explain"] ELSE EmptyDict
        c == [docs |-> json["response"]["docs"], debug |-> rq.debug,
              highlighting |-> rq.highlighting, explain_info |-> explain_info,
              orders |-> orders]
        done == project_docs(1, <<>>, IF Has(json, "debug") THEN Some(json["debug"]) ELSE None, c)
    IN IF copies THEN done.outputs
       ELSE [i \in 1..Len(done.outputs) |->
                [done.outputs[i] EXCEPT !.debug = done.response_debug]]

-----------------------------------------------------------------------------
(* The request parameters the model draws from. *)

Texts == {<<>>, <<" ", "\t">>, <<"a">>, <<" ", "B", "\n">>}

Alphabet == {"a", "A", "1", " ", ".", "(", "-", "*", "\\", "\"", "&", "|", "LDQUO"}

QueryTexts == SeqsUpTo(Alphabet, MaxLen)

BulkTexts == {<<" ">>, <<"a">>, <<"b">>}

\* Values of the debug parameter as the client may write them.
RawDebugs == DebugOptions \cup {"verbose", "ALL"}

\* The defaults of the endpoints' optional parameters.
DefaultOptions ==
    [biolink_types |-> <<>>, only_prefixes |-> None, exclude_prefixes |-> None,
     only_taxa |-> None, offset |-> 0, limit |-> 10]

TypePool ==
    {<<"b", "i", "o", "l", "i", "n", "k", ":", "D", "i", "s", "e", "a", "s", "e">>,
     <<"P", "h", "e", "n", "o", "t", "y", "p", "i", "c", "F", "e", "a", "t", "u", "r", "e">>,
     <<" ">>,
     <<" ", "D", "i", "s", "e", "a", "s", "e">>,
     <<"b", "i", "o", "l", "i", "n", "k", ":">>}

PipeTexts ==
    {None, Some(<<>>), Some(<<"|">>), Some(<<"M", "|", "E">>), Some(<<"M", " ", "|", " ", "E">>)}

FilterOptions ==
    {[biolink_types |-> ts, only_prefixes |-> op, exclude_prefixes |-> ep, only_taxa |-> ot,
      offset |-> 0, limit |-> 10] :
        ts \in SeqsUpTo(TypePool, MaxTypes), op \in PipeTexts, ep \in PipeTexts, ot \in PipeTexts}

-----------------------------------------------------------------------------
(* The handlers. *)

Tasks == 1..NumTasks

\* A coroutine of lookup that has not been called: no parameters, no locals.
IdleTask ==
    [pc |-> "idle", req |-> EmptyDict, frame |-> EmptyDict, resp |-> EmptyDict,
     reply |-> None, error |-> None]

Init ==
    /\ pc = "idle"
    /\ req = EmptyDict
    /\ idx = 0
    /\ frame = EmptyDict
    /\ sent = <<>>
    /\ resp = EmptyDict
    /\ result = EmptyDict
    /\ reply = None
    /\ returned = <<>>
    /\ error = None
    /\ pydanticCopies \in BOOLEAN
    /\ tasks = [t \in Tasks |-> IdleTask]

AcceptAnyDebug(debug) == TRUE

\* debug: Union[DebugOptions, None] of the endpoints and Optional[DebugOptions] of
\* NameResQuery: the framework accepts None and the five values of the enumeration.
valid_debug(debug) == debug = None \/ debug[1] \in DebugOptions

\* The 422 answer of the framework; the handler is not entered.
RequestValidationError == Some([type |-> "RequestValidationError", loc |-> "debug"])

\* lookup_curies_get and lookup_curies_post pass their parameters on to lookup.
call_lookup(strings, autocompletes, highlightings, debugs, options) ==
    /\ pc = "idle"
    /\ \E string \in strings, autocomplete \in autocompletes,
          highlighting \in highlightings, debug \in debugs, option \in options :
          /\ req' = [kind |-> "lookup", strings |-> <<string>>, autocomplete |-> autocomplete,
                     highlighting |-> highlighting, debug |-> Some(debug)] @@ option
          /\ pc' = IF valid_debug(Some(debug)) THEN "called" ELSE "invalid"
          /\ error' = IF valid_debug(Some(debug)) THEN error ELSE RequestValidationError
    /\ idx' = 1
    /\ UNCHANGED <<frame, sent, resp, result, reply, returned, pydanticCopies, tasks>>

lookup_curies_get(strings, autocompletes, highlightings, debugs, options) ==
    call_lookup(strings, autocompletes, highlightings, debugs, options)

lookup_curies_post(strings, autocompletes, highlightings, debugs, options) ==
    call_lookup(strings, autocompletes, highlightings, debugs, options)

\* bulk_lookup before its first lookup call: result = {} and the loop over
\* query.strings, which returns at once when the list is empty.
bulk_lookup(texts, autocompletes, highlightings, debugs, options) ==
    /\ pc = "idle"
    /\ \E strings \in SeqsUpTo(texts, MaxStrings), autocomplete \in autocompletes,
          highlighting \in highlightings, debug \in debugs, option \in options :
          /\ req' = [kind |-> "bulk", strings |-> strings, autocomplete |-> autocomplete,
                     highlighting |-> highlighting, debug |-> debug] @@ option
          /\ pc' = IF ~valid_debug(debug) THEN "invalid"
                   ELSE IF strings = <<>> THEN "done" ELSE "called"
          /\ reply' = IF valid_debug(debug) /\ strings = <<>> THEN Some(EmptyDict) ELSE None
          /\ error' = IF valid_debug(debug) THEN error ELSE RequestValidationError
    /\ idx' = 1
    /\ result' = EmptyDict
    /\ UNCHANGED <<frame, sent, resp, returned, pydanticCopies, tasks>>

FirstWriteWins(d, k, v) == IF k \in DOMAIN d THEN d ELSE SetItem(d, k, v)

\* result[string] = await lookup(...)
store_result(d, k, v) == SetItem(d, k, v)

\* A lookup call returns `outputs` to its caller: the endpoint returns it, the
\* loop of bulk_lookup stores it and goes on to the next string, or returns.
lookup_return(outputs) ==
    /\ returned' = Append(returned, outputs)
    /\ frame' = EmptyDict
    /\ IF req.kind = "lookup"
       THEN /\ reply' = Some(outputs)
            /\ pc' = "done"
            /\ UNCHANGED <<idx, result>>
       ELSE /\ result' = store_result(result, req.strings[idx], outputs)
            /\ idx' = idx + 1
            /\ pc' = IF idx = Len(req.strings) THEN "done" ELSE "called"
            /\ reply' = IF idx = Len(req.strings)
                        THEN Some(store_result(result, req.strings[idx], outputs))
                        ELSE None

NeverBlank(string_lc) == FALSE

\* `if string_lc == "": return []`
is_blank(string_lc) == string_lc = <<>>

\* lookup, from its entry to `await client.post(query_url, json=params)`.
lookup_begin ==
    /\ pc = "called"
    /\ LET string == req.strings[idx]
           string_lc == normalize(string)
           string_lc_escape_groupings == escape_groupings(string_lc)
           string_lc_escape_everything == escape_everything(string_lc)
           query == compose_query(string_lc_escape_groupings, string_lc_escape_everything,
                                  req.autocomplete)
           filters == build_filters(req.biolink_types, req.only_prefixes,
                                    req.exclude_prefixes, req.only_taxa)
           params == solr_params(query, req.limit, req.offset, filters,
                                 inner_params(req.highlighting, req.debug))
       IN IF is_blank(string_lc)
          THEN /\ lookup_return(<<>>)
               /\ UNCHANGED <<sent, resp>>
          ELSE /\ frame' = [string |-> string, string_lc |-> string_lc,
                            string_lc_escape_groupings |-> string_lc_escape_groupings,
                            string_lc_escape_everything |-> string_lc_escape_everything,
                            query |-> query, params |-> params]
               /\ sent' = Append(sent, params)
               /\ pc' = "awaiting"
               /\ resp' = EmptyDict
               /\ UNCHANGED <<idx, result, reply, returned>>
    /\ UNCHANGED <<req, error, pydanticCopies, tasks>>

\* Solr answers the posted request.
solr_respond(pool) ==
    /\ pc = "awaiting"
    /\ resp' \in pool
    /\ pc' = "received"
    /\ UNCHANGED <<req, idx, frame, sent, result, reply, returned, error, pydanticCopies, tasks>>

OnlyServerErrors(status_code) == status_code >= 500

\* `if response.status_code >= 300:` ... response.raise_for_status(), which raises
\* HTTPStatusError for every status outside 2xx.
solr_error(status_code) == status_code >= 300

\* lookup, resumed with the response, to its return or its exception.
CarryOnAfterFailure(kind, i, n) == IF kind = "bulk" /\ i < n THEN "called" ELSE "failed"

\* An exception leaving lookup ends its caller too: the endpoints return the await
\* directly, and the loop of bulk_lookup (lines 660-671) has no try around its await,
\* whichever string (the i-th of n) was being looked up.
raised(kind, i, n) == "failed"

lookup_resume ==
    /\ pc = "received"
    /\ IF solr_error(resp.status_code)
       THEN /\ error' = Some([type |-> "HTTPStatusError", status_code |-> resp.status_code])
            /\ pc' = raised(req.kind, idx, Len(req.strings))
            /\ frame' = EmptyDict
            /\ UNCHANGED <<idx, result, reply, returned>>
       ELSE IF ~Has(resp.json, "response")
       THEN /\ error' = Some([type |-> "KeyError", key |-> "response"])
            /\ pc' = raised(req.kind, idx, Len(req.strings))
            /\ frame' = EmptyDict
            /\ UNCHANGED <<idx, result, reply, returned>>
       ELSE IF \E i \in 1..Len(resp.json["response"]["docs"]) :
                   ~valid_score(resp.json["response"]["docs"][i])
       THEN /\ error' = Some([type |-> "ValidationError", field |-> "score"])
            /\ pc' = raised(req.kind, idx, Len(req.strings))
            /\ frame' = EmptyDict
            /\ UNCHANGED <<idx, result, reply, returned>>
       ELSE /\ \E orders \in OrderChoices(resp.json["response"]["docs"],
                                          Get(resp.json, "highlighting", EmptyDict)) :
                  lookup_return(project(resp.json, req, orders, pydanticCopies))
            /\ error' = error
    /\ UNCHANGED <<req, sent, resp, pydanticCopies, tasks>>

Next ==
    \/ lookup_curies_get(Texts, BOOLEAN, BOOLEAN, DebugOptions, {DefaultOptions})
    \/ lookup_curies_post(Texts, BOOLEAN, BOOLEAN, DebugOptions, {DefaultOptions})
    \/ lookup_begin
    \/ solr_respond(ResponsePool)
    \/ lookup_resume

Spec == Init /\ [][Next]_vars

NextBulk ==
    \/ bulk_lookup(BulkTexts, {FALSE}, {FALSE}, {Some("none"), Some("all"), None},
                   {DefaultOptions})
    \/ lookup_begin
    \/ solr_respond(BulkResponsePool)
    \/ lookup_resume

SpecBulk == Init /\ [][NextBulk]_vars

NextQuery ==
    \/ lookup_curies_get(QueryTexts, BOOLEAN, {FALSE}, {"none"}, {DefaultOptions})
    \/ lookup_begin

SpecQuery == Init /\ [][NextQuery]_vars

-----------------------------------------------------------------------------
(* The reverse lookup: reverse_lookup_get, synonyms_get, lookup_names_post and
   synonyms_post all return curie_lookup(curies), lines 120-219. *)

CuriePool == {<<"A", ":", "1">>, <<"A", ":", "2">>, <<"B", ":", "1">>}

\* The documents of the index: one per CURIE, lookups by curie:"..." match exactly.
IndexDocs ==
    {[curie |-> <<"A", ":", "1">>, preferred_name |-> "alpha", names |-> <<"alpha", "a">>],
     [curie |-> <<"B", ":", "1">>, preferred_name |-> "beta", names |-> <<"beta">>]}

L_curie_quote == <<"c", "u", "r", "i", "e", ":", "\"">>

call_curie_lookup(curie_lists) ==
    /\ pc = "idle"
    /\ \E curies \in curie_lists : req' = [kind |-> "reverse", curies |-> curies]
    /\ pc' = "called"
    /\ UNCHANGED <<idx, frame, sent, resp, result, reply, returned, error, pydanticCopies, tasks>>

reverse_lookup_get(curie_lists) == call_curie_lookup(curie_lists)

lookup_names_post(curie_lists) == call_curie_lookup(curie_lists)

\* lines 197-204
curie_filter(curies) ==
    join(L_OR, [i \in 1..Len(curies) |-> L_curie_quote \o curies[i] \o L_quote])

\* lines 193-206: curie_lookup up to its await
curie_lookup_begin ==
    /\ pc = "called"
    /\ req.kind = "reverse"
    /\ LET params == [query |-> curie_filter(req.curies), limit |-> 1000000]
       IN /\ sent' = Append(sent, params)
          /\ frame' = [curies |-> req.curies, params |-> params]
    /\ pc' = "awaiting"
    /\ UNCHANGED <<req, idx, resp, result, reply, returned, error, pydanticCopies, tasks>>

\* The documents of an index that match a query of curie:"..." terms.
select(index, query) ==
    {doc \in index : \E i \in 1..Len(query) :
        /\ i + Len(L_curie_quote) + Len(doc.curie) <= Len(query)
        /\ SubSeq(query, i, i + Len(L_curie_quote) + Len(doc.curie)) =
               L_curie_quote \o doc.curie \o L_quote}

Orderings(S) == {seq \in [1..Cardinality(S) -> S] : \A i, j \in 1..Len(seq) : i # j => seq[i] # seq[j]}

\* Solr answers the posted query from some index, in some order, or fails.
solr_select(indexes, statuses) ==
    /\ pc = "awaiting"
    /\ resp' \in
           {[status_code |-> 200, json |-> [response |-> [docs |-> docs]]] :
               docs \in UNION {Orderings(select(index, frame.params.query)) : index \in indexes}}
           \cup {[status_code |-> st, json |-> [error |-> [code |-> st]]] : st \in statuses}
    /\ pc' = "received"
    /\ UNCHANGED <<req, idx, frame, sent, result, reply, returned, error, pydanticCopies, tasks>>

NoEmptyEntries(curies) == EmptyDict

\* lines 210-213
empty_output(curies) == [curie \in ToSet(curies) |-> EmptyDict]

\* lines 214-215
RECURSIVE fill_output(_, _)
fill_output(output, docs) ==
    IF docs = <<>> THEN output
    ELSE fill_output(SetItem(output, Head(docs).curie, Head(docs)), Tail(docs))

\* lines 208-219: curie_lookup after its await
curie_lookup_resume ==
    /\ pc = "received"
    /\ req.kind = "reverse"
    /\ IF resp.status_code \notin 200..299
       THEN /\ error' = Some([type |-> "HTTPStatusError", status_code |-> resp.status_code])
            /\ pc' = "failed"
            /\ reply' = reply
       ELSE /\ reply' = Some(fill_output(empty_output(frame.curies), resp.json["response"]["docs"]))
            /\ pc' = "done"
            /\ error' = error
    /\ frame' = EmptyDict
    /\ UNCHANGED <<req, idx, sent, resp, result, returned, pydanticCopies, tasks>>

NextReverse ==
    \/ reverse_lookup_get(SeqsUpTo(CuriePool, MaxCuries))
    \/ lookup_names_post(SeqsUpTo(CuriePool, MaxCuries))
    \/ curie_lookup_begin
    \/ solr_select(SUBSET IndexDocs, ErrorStatuses)
    \/ curie_lookup_resume

SpecReverse == Init /\ [][NextReverse]_vars

ValidateResponsePool ==
    {[status_code |-> 200, json |-> [response |-> [docs |-> ds]] @@ g] :
        ds \in {<<>>, <<Doc1>>}, g \in {EmptyDict, [debug |-> [timing |-> "t"]]}}

NextValidate ==
    \/ lookup_curies_get({<<"a">>}, {FALSE}, {FALSE}, RawDebugs, {DefaultOptions})
    \/ lookup_curies_post({<<"a">>}, {FALSE}, {FALSE}, RawDebugs, {DefaultOptions})
    \/ bulk_lookup({<<"a">>, <<"b">>}, {FALSE}, {FALSE},
                   {Some(debug) : debug \in RawDebugs} \cup {None}, {DefaultOptions})
    \/ lookup_begin
    \/ solr_respond(ValidateResponsePool)
    \/ lookup_resume

SpecValidate == Init /\ [][NextValidate]_vars

\* offset (ge=0) and limit (ge=0, le=1000) as the endpoints accept them.
PagingOptions ==
    {[DefaultOptions EXCEPT !.offset = offset, !.limit = limit] :
        offset \in 0..MaxOffset, limit \in 0..MaxLimit}

PagingResponsePool ==
    {[status_code |-> 200, json |-> [response |-> [docs |-> ds]]] : ds \in DocSeqs}

NextPaging ==
    \/ lookup_curies_get({<<"a">>}, {FALSE}, {FALSE}, {"none"}, PagingOptions)
    \/ lookup_begin
    \/ solr_respond(PagingResponsePool)
    \/ lookup_resume

SpecPaging == Init /\ [][NextPaging]_vars

-----------------------------------------------------------------------------
(* Concurrent lookups.  Every call of lookup is a coroutine of its own: its
   parameters and locals (lines 362-584) belong to the call, the httpx client is
   created inside it (line 507), and the module keeps no mutable global.  The
   event loop switches coroutines at the await of line 508 only. *)

RequestOfFirstTask(ts, t) == IF ts[1].pc = "idle" THEN ts[t].req ELSE ts[1].req

\* The parameters of coroutine t, as its own frame holds them.
parameters(ts, t) == ts[t].req

task_call(t, strings, highlightings, debugs) ==
    /\ tasks[t].pc = "idle"
    /\ \E string \in strings, highlighting \in highlightings, debug \in debugs :
          tasks' = [tasks EXCEPT ![t].pc = "called",
                                 ![t].req = [kind |-> "lookup", strings |-> <<string>>,
                                             autocomplete |-> FALSE,
                                             highlighting |-> highlighting,
                                             debug |-> Some(debug)] @@ DefaultOptions]
    /\ UNCHANGED <<pc, req, idx, frame, sent, resp, result, reply, returned, error,
                   pydanticCopies>>

\* lines 387-508 of coroutine t: up to its await, or its return for a blank text
task_begin(t) ==
    /\ tasks[t].pc = "called"
    /\ LET rq == parameters(tasks, t)
           string_lc == normalize(rq.strings[1])
           query == compose_query(escape_groupings(string_lc), escape_everything(string_lc),
                                  rq.autocomplete)
           filters == build_filters(rq.biolink_types, rq.only_prefixes,
                                    rq.exclude_prefixes, rq.only_taxa)
           params == solr_params(query, rq.limit, rq.offset, filters,
                                 inner_params(rq.highlighting, rq.debug))
       IN IF is_blank(string_lc)
          THEN tasks' = [tasks EXCEPT ![t].pc = "done", ![t].reply = Some(<<>>)]
          ELSE tasks' = [tasks EXCEPT ![t].pc = "awaiting",
                                      ![t].frame = [string_lc |-> string_lc, query |-> query,
                                                    params |-> params]]
    /\ UNCHANGED <<pc, req, idx, frame, sent, resp, result, reply, returned, error,
                   pydanticCopies>>

\* Solr answers the request of coroutine t.
task_respond(t, pool) ==
    /\ tasks[t].pc = "awaiting"
    /\ \E response \in pool : tasks' = [tasks EXCEPT ![t].pc = "received", ![t].resp = response]
    /\ UNCHANGED <<pc, req, idx, frame, sent, resp, result, reply, returned, error,
                   pydanticCopies>>

\* lines 509-584 of coroutine t
task_resume(t) ==
    /\ tasks[t].pc = "received"
    /\ LET response == tasks[t].resp
           rq == parameters(tasks, t)
       IN IF solr_error(response.status_code)
          THEN tasks' = [tasks EXCEPT ![t].pc = "failed", ![t].frame = EmptyDict,
                            ![t].error = Some([type |-> "HTTPStatusError",
                                               status_code |-> response.status_code])]
          ELSE IF \E i \in 1..Len(response.json["response"]["docs"]) :
                      ~valid_score(response.json["response"]["docs"][i])
          THEN tasks' = [tasks EXCEPT ![t].pc = "failed", ![t].frame = EmptyDict,
                            ![t].error = Some([type |-> "ValidationError", field |-> "score"])]
          ELSE \E orders \in OrderChoices(response.json["response"]["docs"],
                                          Get(response.json, "highlighting", EmptyDict)) :
                  tasks' = [tasks EXCEPT ![t].pc = "done", ![t].frame = EmptyDict,
                               ![t].reply = Some(project(response.json, rq, orders,
                                                         pydanticCopies))]
    /\ UNCHANGED <<pc, req, idx, frame, sent, resp, result, reply, returned, error,
                   pydanticCopies>>

ConcurrentResponsePool ==
    {[status_code |-> 503, json |-> [error |-> [code |-> 503]]],
     [status_code |-> 200,
      json |-> [response |-> [docs |-> <<Doc1>>], highlighting |-> HighlightingA,
                debug |-> [timing |-> "t", explain |-> [d1 |-> "e1"]]]],
     [status_code |-> 200, json |-> [response |-> [docs |-> <<Doc2, Doc1>>]]]}

NextConcurrent ==
    \/ \E t \in Tasks : task_call(t, {<<" ">>, <<"a">>}, BOOLEAN, {"all"})
    \/ \E t \in Tasks : task_begin(t)
    \/ \E t \in Tasks : task_respond(t, ConcurrentResponsePool)
    \/ \E t \in Tasks : task_resume(t)

SpecConcurrent == Init /\ [][NextConcurrent]_vars

-----------------------------------------------------------------------------
(* status, lines 58-100. *)

\* BABEL_VERSION and BABEL_VERSION_URL of the process environment, set or not.
Environs ==
    {e \in [{"BABEL_VERSION", "BABEL_VERSION_URL"} -> {None, Some("2025jan1")}] : TRUE}

\* What Solr reports of one core's index.
IndexStatus ==
    [numDocs |-> 89, maxDoc |-> 90, deletedDocs |-> 1, version |-> 42, segmentCount |-> 2,
     lastModified |-> "2025-01-01T00:00:00Z", size |-> "1 MB"]

CoreStatuses ==
    {[startTime |-> "2025-01-02T00:00:00Z",
      index |-> [k \in fields |-> IndexStatus[k]]] : fields \in SUBSET DOMAIN IndexStatus}
    \cup {[startTime |-> "2025-01-02T00:00:00Z"], [index |-> IndexStatus]}

AdminResponsePool ==
    ErrorResponses
    \cup {[status_code |-> 200, json |-> admin] :
            admin \in {EmptyDict, [status |-> EmptyDict],
                        [status |-> [other_core |-> [startTime |-> "2025-01-02T00:00:00Z"]]]}}
    \cup {[status_code |-> 200, json |-> [status |-> [name_lookup_shard1_replica_n1 |-> core]]] :
            core \in CoreStatuses}

\* status up to `await client.get(query_url, params={'action': 'STATUS'})`
status_begin(environs) ==
    /\ pc = "idle"
    /\ \E environ \in environs : req' = [kind |-> "status", environ |-> environ]
    /\ sent' = Append(sent, [action |-> "STATUS"])
    /\ pc' = "awaiting"
    /\ resp' = EmptyDict
    /\ UNCHANGED <<idx, frame, result, reply, returned, error, pydanticCopies, tasks>>

\* os.environ.get(name, default)
environ_get(environ, name, default) == IF environ[name] = None THEN default ELSE environ[name][1]

\* lines 81-95: the answer for the expected core
core_report(core, environ) ==
    LET index == Get(core, "index", EmptyDict)
    IN [status |-> "ok",
        message |-> "Reporting results from primary core.",
        babel_version |-> environ_get(environ, "BABEL_VERSION", "unknown"),
        babel_version_url |-> environ_get(environ, "BABEL_VERSION_URL", ""),
        startTime |-> core["startTime"],
        numDocs |-> Get(index, "numDocs", ""),
        maxDoc |-> Get(index, "maxDoc", ""),
        deletedDocs |-> Get(index, "deletedDocs", ""),
        version |-> Get(index, "version", ""),
        segmentCount |-> Get(index, "segmentCount", ""),
        lastModified |-> Get(index, "lastModified", ""),
        size |-> Get(index, "size", "")]

\* lines 65-100: status after its await
status_resume ==
    /\ pc = "received"
    /\ req.kind = "status"
    /\ IF solr_error(resp.status_code)
       THEN /\ error' = Some([type |-> "HTTPStatusError", status_code |-> resp.status_code])
            /\ pc' = "failed"
            /\ reply' = reply
       ELSE IF ~(Has(resp.json, "status")
                 /\ Has(resp.json["status"], "name_lookup_shard1_replica_n1"))
       THEN /\ reply' = Some([status |-> "error", message |-> "Expected core not found."])
            /\ pc' = "done"
            /\ error' = error
       ELSE IF ~Has(resp.json["status"]["name_lookup_shard1_replica_n1"], "startTime")
       THEN /\ error' = Some([type |-> "KeyError", key |-> "startTime"])
            /\ pc' = "failed"
            /\ reply' = reply
       ELSE /\ reply' = Some(core_report(resp.json["status"]["name_lookup_shard1_replica_n1"],
                                         req.environ))
            /\ pc' = "done"
            /\ error' = error
    /\ UNCHANGED <<req, idx, frame, sent, resp, result, returned, pydanticCopies, tasks>>

NextStatus ==
    \/ status_begin(Environs)
    \/ solr_respond(AdminResponsePool)
    \/ status_resume

SpecStatus == Init /\ [][NextStatus]_vars

NextDefaults ==
    \/ lookup_curies_get({<<"a">>}, {FALSE}, {FALSE}, {"none"}, {DefaultOptions})
    \/ lookup_begin
    \/ solr_respond(SparseResponsePool)
    \/ lookup_resume

SpecDefaults == Init /\ [][NextDefaults]_vars

NextFilter ==
    \/ lookup_curies_get({<<"a">>}, {FALSE}, {FALSE}, {"none"}, FilterOptions)
    \/ lookup_begin

SpecFilter == Init /\ [][NextFilter]_vars

-----------------------------------------------------------------------------
(* Properties. *)

IsBlank(s) == \A i \in 1..Len(s) : s[i] \in Whitespace

Handled == pc \in {"done", "failed"}

LookupOf(blank) == pc # "idle" /\ req.kind = "lookup" /\ (IsBlank(req.strings[1]) <=> blank)

\* The documents and sections of the response a finished lookup was resumed with.
RespDocs == resp.json["response"]["docs"]
RespExplain ==
    IF Has(resp.json, "debug") /\ Has(resp.json["debug"], "explain")
    THEN resp.json["debug"]["explain"] ELSE EmptyDict
RespHighlighting == Get(resp.json, "highlighting", EmptyDict)

\* A lookup that returned the projection of a response.
Projected ==
    /\ pc = "done"
    /\ req.kind = "lookup"
    /\ ~IsBlank(req.strings[1])

\* C1: for every search text that is empty or only whitespace, lookup returns the
\* empty list and posts nothing to Solr, whatever the other parameters are.
C1_BlankTextReturnsEmptyList ==
    LookupOf(TRUE) =>
        /\ sent = <<>>
        /\ pc \in {"called", "done"}
        /\ pc = "done" => reply = Some(<<>>) /\ returned = <<(<<>>)>>

C1_Witness ==
    /\ LookupOf(TRUE)
    /\ pc = "done"
    /\ req.strings[1] = <<" ", "\t">>
    /\ req.debug = Some("all")
    /\ req.highlighting

\* C2: a lookup with non-blank text posts exactly one request to Solr; when Solr
\* answers with a status outside 2xx the lookup ends in a failure that carries that
\* status, returns no result list and posts no second request.
C2_OneRequestAndUpstreamFailure ==
    LookupOf(FALSE) =>
        /\ pc = "called" => sent = <<>>
        /\ pc # "called" => Len(sent) = 1
        /\ (Handled /\ resp.status_code \notin 200..299) =>
              /\ pc = "failed"
              /\ error = Some([type |-> "HTTPStatusError", status_code |-> resp.status_code])
              /\ reply = None
              /\ returned = <<>>
        /\ (Handled /\ resp.status_code \in 200..299) => pc = "done" /\ reply # None

C2_Witness ==
    /\ LookupOf(FALSE)
    /\ pc = "failed"
    /\ resp.status_code = 301
    /\ Len(sent) = 1

\* C3: when every Solr call succeeds, bulk_lookup returns a mapping whose keys are
\* exactly the distinct input strings, each holding what the lookup of the LAST
\* occurrence of that string returned; one lookup is made per list element,
\* duplicates included, with one Solr request for each non-blank element.
C3_BulkKeysAndLastWins ==
    (pc = "done" /\ req.kind = "bulk") =>
        /\ reply # None
        /\ DOMAIN reply[1] = ToSet(req.strings)
        /\ Len(returned) = Len(req.strings)
        /\ Len(sent) = Cardinality({i \in 1..Len(req.strings) : ~IsBlank(req.strings[i])})
        /\ \A i \in 1..Len(req.strings) :
              (\A j \in (i + 1)..Len(req.strings) : req.strings[j] # req.strings[i])
                  => reply[1][req.strings[i]] = returned[i]

C3_Witness ==
    /\ pc = "done"
    /\ req.kind = "bulk"
    /\ req.strings = <<(<<"a">>), <<"a">>>>
    /\ returned[1] # returned[2]
    /\ Len(sent) = 2

\* C4: with debug level none, every returned result has neither a debug payload nor
\* an explain payload, whatever optional sections the Solr response contains.
C4_NoDebugPayloadAtLevelNone ==
    (Projected /\ req.debug = Some("none")) =>
        \A i \in 1..Len(reply[1]) : reply[1][i].debug = None /\ reply[1][i].explain = None

\* C5: a result carries an explain payload if and only if the debug level is
\* results or all and the explain section of the response has an entry for the
\* document's id; the payload is then exactly that entry.
C5_ExplainIffRequestedAndSupplied ==
    Projected =>
        /\ Len(reply[1]) = Len(RespDocs)
        /\ \A i \in 1..Len(reply[1]) :
              /\ reply[1][i].explain # None
                    <=> (/\ req.debug \in {Some("results"), Some("all")}
                         /\ RespDocs[i]["id"] \in DOMAIN RespExplain)
              /\ reply[1][i].explain # None
                    => reply[1][i].explain = Some(RespExplain[RespDocs[i]["id"]])

C5_Witness ==
    /\ Projected
    /\ req.debug = Some("results")
    /\ Len(reply[1]) = 2
    /\ reply[1][1].explain = None
    /\ reply[1][2].explain = Some("e2")

\* C6: when the debug level is not none and the response has a debug section, that
\* payload is attached to every result, and on every result that also carries its
\* own explain the payload's explain sub-field is the removal placeholder.
C6_DebugAttachedExplainReplaced ==
    (Projected /\ req.debug # Some("none") /\ Has(resp.json, "debug")) =>
        \A i \in 1..Len(reply[1]) :
            /\ reply[1][i].debug # None
            /\ DOMAIN reply[1][i].debug[1] = DOMAIN resp.json["debug"]
            /\ \A k \in DOMAIN resp.json["debug"] \ {"explain"} :
                  reply[1][i].debug[1][k] = resp.json["debug"][k]
            /\ reply[1][i].explain # None => reply[1][i].debug[1]["explain"] = Placeholder

C6_Witness ==
    /\ Projected
    /\ req.debug = Some("all")
    /\ Len(reply[1]) = 2
    /\ reply[1][1].explain = Some("e1")
    /\ reply[1][1].debug[1]["explain"] = Placeholder
    /\ Has(reply[1][1].debug[1], "timing")
    /\ reply[1][1].debug[1]["timing"] = "t"

\* C7: when highlighting is not requested, the highlighting field of every returned
\* result is the empty map, also when the response has a highlighting section for
\* that document.
C7_NoHighlightingUnlessRequested ==
    (Projected /\ ~req.highlighting) =>
        \A i \in 1..Len(reply[1]) : reply[1][i].highlighting = EmptyDict

C7_Witness ==
    /\ Projected
    /\ ~req.highlighting
    /\ Len(reply[1]) > 0
    /\ RespDocs[1]["id"] \in DOMAIN RespHighlighting
    /\ reply[1][1].highlighting = EmptyDict

Precedes(list, a, b) ==
    \A i, j \in 1..Len(list) : (list[i] = a /\ list[j] = b) => i < j

\* In `list`, the fragments of the exactish field come before the fragments that only
\* the plain field has, nothing is empty and nothing is there twice.
ExactishFirst(list, matches, exactish, plain) ==
    /\ \A a \in ToSet(Get(matches, exactish, <<>>)) :
          \A b \in ToSet(Get(matches, plain, <<>>)) \ ToSet(Get(matches, exactish, <<>>)) :
              Precedes(list, a, b)
    /\ \A i \in 1..Len(list) : list[i] # ""
    /\ \A i, j \in 1..Len(list) : i # j => list[i] # list[j]

\* C8: when highlighting is requested, in `labels` every fragment of the exactish
\* preferred-name field precedes every fragment that only the plain preferred-name
\* field has, likewise in `synonyms` for the two synonym fields; neither list holds
\* an empty fragment or a fragment twice.
C8_ExactishFragmentsFirst ==
    (Projected /\ req.highlighting) =>
        \A i \in 1..Len(reply[1]) :
            LET matches == Get(RespHighlighting, RespDocs[i]["id"], EmptyDict)
            IN /\ ExactishFirst(reply[1][i].highlighting["labels"], matches,
                                "preferred_name_exactish", "preferred_name")
               /\ ExactishFirst(reply[1][i].highlighting["synonyms"], matches,
                                "names_exactish", "names")

\* The characters the fully-escaped variant must escape.
SpecialCharacters ==
    {"!", "(", ")", "{", "}", "[", "]", "^", "\"", "~", "*", "?", ":", "/", "+", "-", "\\"}

\* Read left to right, a backslash and the character after it are one escape pair.
\* Every special character of s is then the backslash or the second character of a pair.
RECURSIVE SpecialsEscaped(_)
SpecialsEscaped(s) ==
    IF s = <<>> THEN TRUE
    ELSE IF Head(s) = "\\" THEN Len(s) >= 2 /\ SpecialsEscaped(SubSeq(s, 3, Len(s)))
    ELSE Head(s) \notin SpecialCharacters /\ SpecialsEscaped(Tail(s))

\* s with the backslash of every escape pair taken out.
RECURSIVE Unescaped(_)
Unescaped(s) ==
    IF s = <<>> THEN <<>>
    ELSE IF Head(s) = "\\" /\ Len(s) >= 2 THEN <<s[2]>> \o Unescaped(SubSeq(s, 3, Len(s)))
    ELSE <<Head(s)>> \o Unescaped(Tail(s))

Contains(s, pair) == \E i \in 1..(Len(s) - 1) : SubSeq(s, i, i + 1) = pair

\* A lookup suspended at its Solr call: the query has been constructed.
Constructed == pc = "awaiting" /\ req.kind = "lookup"

\* C9: in the fully-escaped variant every special character of the normalized text
\* stands behind an inserted backslash, no && and no || is left (each became one
\* space), and the construction fails for no text.
C9_FullyEscapedVariant ==
    /\ pc \in {"idle", "called", "awaiting", "done"}
    /\ (pc = "awaiting" \/ pc = "done") => (pc = "done" <=> IsBlank(req.strings[1]))
    /\ Constructed =>
          LET e == frame["string_lc_escape_everything"]
              n == frame["string_lc"]
          IN /\ SpecialsEscaped(e)
             /\ Unescaped(e) = replace(replace(n, <<"&", "&">>, <<" ">>), <<"|", "|">>, <<" ">>)
             /\ ~Contains(e, <<"&", "&">>)
             /\ ~Contains(e, <<"|", "|">>)

C9_Witness ==
    /\ Constructed
    /\ frame["string_lc"] = <<"(", "&", "&">>
    /\ frame["string_lc_escape_everything"] = <<"\\", "(", " ">>

\* The parenthesised clause of the query: what stands between `"<grouping-safe>" OR (`
\* and the closing parenthesis.
QueryHead == <<"\"">> \o frame["string_lc_escape_groupings"] \o <<"\"", " ", "O", "R", " ", "(">>
QueryWellFormed ==
    /\ Len(frame["query"]) > Len(QueryHead)
    /\ SubSeq(frame["query"], 1, Len(QueryHead)) = QueryHead
    /\ frame["query"][Len(frame["query"])] = ")"
    /\ \A i \in 1..Len(frame["string_lc_escape_groupings"]) :
          frame["string_lc_escape_groupings"][i] \notin {"\"", "\\"}
    /\ sent = <<frame["params"]>>
    /\ frame["params"].query = frame["query"]
Clause == SubSeq(frame["query"], Len(QueryHead) + 1, Len(frame["query"]) - 1)

\* Read left to right in escape pairs, s ends with a "*" that is not escaped.
RECURSIVE EndsWithUnescapedStar(_)
EndsWithUnescapedStar(s) ==
    IF s = <<>> THEN FALSE
    ELSE IF Head(s) = "\\" THEN Len(s) >= 2 /\ EndsWithUnescapedStar(SubSeq(s, 3, Len(s)))
    ELSE IF Len(s) = 1 THEN Head(s) = "*"
    ELSE EndsWithUnescapedStar(Tail(s))

\* C10 as stated: the query is "<grouping-safe>" OR (<fully-escaped>), and its
\* parenthesised clause ends with the character * if and only if autocomplete is true.
C10_ClauseEndsWithStarIffAutocomplete ==
    Constructed =>
        /\ QueryWellFormed
        /\ (Clause # <<>> /\ Clause[Len(Clause)] = "*") <=> req.autocomplete

\* C10, amended: the query is "<grouping-safe>" OR (<fully-escaped>), with * appended
\* to the clause when autocomplete is true; the clause ends with an unescaped * if
\* and only if autocomplete is true.
C10_ClauseEndsWithUnescapedStarIffAutocomplete ==
    Constructed =>
        /\ QueryWellFormed
        /\ Clause = frame["string_lc_escape_everything"]
                    \o (IF req.autocomplete THEN <<"*">> ELSE <<>>)
        /\ EndsWithUnescapedStar(Clause) <=> req.autocomplete

C10_Witness ==
    /\ Constructed
    /\ ~req.autocomplete
    /\ frame["string_lc"] = <<"a", "*">>
    /\ Clause = <<"a", "\\", "*">>


-----------------------------------------------------------------------------
(* Filter construction (SpecFilter). *)

\* The filter list a suspended lookup sent to Solr.
SentFilters == frame.params.filter

NonBlankTypes(biolink_types) == SelectSeq(biolink_types, LAMBDA t : ~IsBlank(t))

\* The type as written, an optional leading biolink: removed.
LiteralName(t) ==
    IF Len(t) >= 8 /\ SubSeq(t, 1, 8) = <<"b", "i", "o", "l", "i", "n", "k", ":">> THEN SubSeq(t, 9, Len(t)) ELSE t

\* The type trimmed of surrounding whitespace, an optional leading biolink: removed.
TrimmedName(t) == LiteralName(strip(t))

RECURSIVE ORed(_)
ORed(terms) ==
    IF terms = <<>> THEN <<>>
    ELSE IF Len(terms) = 1 THEN terms[1]
    ELSE terms[1] \o <<" ", "O", "R", " ">> \o ORed(Tail(terms))

\* C11 as stated: for a list of Biolink types the type filter is one clause that ORs
\* a types:<name> term per non-blank type in input order, <name> being the type as
\* supplied with an optional leading biolink: removed.
C11_TypeClauseOfLiteralNames ==
    (Constructed /\ req.biolink_types # <<>>) =>
        LET supplied == NonBlankTypes(req.biolink_types)
        IN /\ Len(SentFilters) >= 1
           /\ SentFilters[1] =
                  ORed([i \in 1..Len(supplied) |-> <<"t", "y", "p", "e", "s", ":">> \o LiteralName(supplied[i])])

\* C11: for a list of Biolink types the type filter is one clause that ORs a
\* types:<name> term per non-blank type in input order, <name> being the type
\* trimmed of surrounding whitespace with an optional leading biolink: removed;
\* [biolink:Disease, PhenotypicFeature] yields types:Disease OR types:PhenotypicFeature.
C11_TypeClauseOfTrimmedNames ==
    (Constructed /\ req.biolink_types # <<>>) =>
        LET supplied == NonBlankTypes(req.biolink_types)
        IN /\ Len(SentFilters) >= 1
           /\ SentFilters[1] =
                  ORed([i \in 1..Len(supplied) |-> <<"t", "y", "p", "e", "s", ":">> \o TrimmedName(supplied[i])])
           /\ req.biolink_types = <<<<"b", "i", "o", "l", "i", "n", "k", ":", "D", "i", "s", "e", "a", "s", "e">>, <<"P", "h", "e", "n", "o", "t", "y", "p", "i", "c", "F", "e", "a", "t", "u", "r", "e">>>> =>
                  SentFilters[1] = <<"t", "y", "p", "e", "s", ":", "D", "i", "s", "e", "a", "s", "e", " ", "O", "R", " ", "t", "y", "p", "e", "s", ":", "P", "h", "e", "n", "o", "t", "y", "p", "i", "c", "F", "e", "a", "t", "u", "r", "e">>

C11_Witness ==
    /\ Constructed
    /\ req.biolink_types = <<<<"b", "i", "o", "l", "i", "n", "k", ":", "D", "i", "s", "e", "a", "s", "e">>, <<"P", "h", "e", "n", "o", "t", "y", "p", "i", "c", "F", "e", "a", "t", "u", "r", "e">>>>
    /\ SentFilters[1] = <<"t", "y", "p", "e", "s", ":", "D", "i", "s", "e", "a", "s", "e", " ", "O", "R", " ", "t", "y", "p", "e", "s", ":", "P", "h", "e", "n", "o", "t", "y", "p", "i", "c", "F", "e", "a", "t", "u", "r", "e">>

ContainsSeq(s, sub) ==
    \E i \in 1..(Len(s) - Len(sub) + 1) : SubSeq(s, i, i + Len(sub) - 1) = sub

endswith(s, suffix) ==
    Len(s) >= Len(suffix) /\ SubSeq(s, Len(s) - Len(suffix) + 1, Len(s)) = suffix

\* A clause with a term that names the empty type, prefix or taxon.
NamesNothing(clause) ==
    \/ endswith(clause, <<"t", "y", "p", "e", "s", ":">>)
    \/ ContainsSeq(clause, <<"t", "y", "p", "e", "s", ":", " ">>)
    \/ ContainsSeq(clause, <<"c", "u", "r", "i", "e", ":", "/", ":">>)
    \/ ContainsSeq(clause, <<"t", "a", "x", "a", ":", "\"", "\"">>)

\* A prefix or taxon string whose pipe-split has a non-empty entry.
HasEntry(optional_string) ==
    /\ optional_string # None
    /\ \E i \in 1..Len(optional_string[1]) : optional_string[1][i] \notin (Whitespace \cup {"|"})

Count(b) == IF b THEN 1 ELSE 0

\* C12: the filter list sent to Solr holds one clause per input that supplies a
\* non-blank type, prefix or taxon, and none for an input that supplies none; every
\* clause is a non-empty string and every term names a non-empty type, prefix or taxon.
C12_NoClauseBuiltFromNothing ==
    Constructed =>
        /\ Len(SentFilters) =
               Count(NonBlankTypes(req.biolink_types) # <<>>) + Count(HasEntry(req.only_prefixes))
               + Count(HasEntry(req.exclude_prefixes)) + Count(HasEntry(req.only_taxa))
        /\ \A i \in 1..Len(SentFilters) :
               SentFilters[i] # <<>> /\ ~NamesNothing(SentFilters[i])


-----------------------------------------------------------------------------
(* Defaults of the projection (SpecDefaults). *)

NaN == "NaN"

\* C13: projecting a Solr document that lacks optional fields never fails the
\* lookup, and the result has the empty string for an absent label, the empty list
\* for absent synonyms, taxa or types, zero for an absent popularity count and the
\* not-a-number sentinel for an absent score.
C13_AbsentFieldsGetDefaults ==
    (Handled /\ req.kind = "lookup" /\ ~IsBlank(req.strings[1])
        /\ resp.status_code = 200 /\ Has(resp.json, "response")) =>
        /\ pc = "done"
        /\ Len(reply[1]) = Len(RespDocs)
        /\ \A i \in 1..Len(RespDocs) :
               /\ ~Has(RespDocs[i], "preferred_name") => reply[1][i].label = ""
               /\ ~Has(RespDocs[i], "names") => reply[1][i].synonyms = <<>>
               /\ ~Has(RespDocs[i], "taxa") => reply[1][i].taxa = <<>>
               /\ ~Has(RespDocs[i], "types") => reply[1][i].types = <<>>
               /\ ~Has(RespDocs[i], "clique_identifier_count") =>
                      reply[1][i].clique_identifier_count = 0
               /\ ~Has(RespDocs[i], "score") => reply[1][i].score = NaN

\* The defaults other than the score's: they hold for every projected document.
DefaultsOfProjectedDocs ==
    (pc = "done" /\ req.kind = "lookup" /\ ~IsBlank(req.strings[1])) =>
        \A i \in 1..Len(RespDocs) :
            /\ ~Has(RespDocs[i], "preferred_name") => reply[1][i].label = ""
            /\ ~Has(RespDocs[i], "names") => reply[1][i].synonyms = <<>>
            /\ ~Has(RespDocs[i], "taxa") => reply[1][i].taxa = <<>>
            /\ ~Has(RespDocs[i], "types") => reply[1][i].types = <<>>
            /\ ~Has(RespDocs[i], "clique_identifier_count") =>
                   reply[1][i].clique_identifier_count = 0


-----------------------------------------------------------------------------
(* The reverse lookup (SpecReverse). *)

Reversed == pc = "done" /\ req.kind = "reverse"

\* C14: for every list of CURIEs the reverse lookup returns a mapping with exactly
\* one entry per distinct input CURIE: a CURIE for which Solr returned a document
\* maps to that document, a CURIE with no matching document maps to the empty object.
C14_OneEntryPerDistinctCurie ==
    /\ (Handled /\ req.kind = "reverse" /\ resp.status_code \in 200..299) => pc = "done"
    /\ Reversed =>
          /\ DOMAIN reply[1] = {req.curies[i] : i \in 1..Len(req.curies)}
          /\ \A i \in 1..Len(req.curies) :
                LET curie == req.curies[i]
                    matching == {k \in 1..Len(RespDocs) : RespDocs[k].curie = curie}
                IN IF matching = {}
                   THEN reply[1][curie] = EmptyDict
                   ELSE \E k \in matching : reply[1][curie] = RespDocs[k]

C14_Witness ==
    /\ Reversed
    /\ req.curies = <<<<"A", ":", "1">>, <<"A", ":", "2">>>>
    /\ Len(RespDocs) = 1
    /\ reply[1] = (<<"A", ":", "1">> :> RespDocs[1]) @@ (<<"A", ":", "2">> :> EmptyDict)


-----------------------------------------------------------------------------
(* Validation of the debug parameter (SpecValidate). *)

DebugValues == {"none", "query", "timing", "results", "all"}

\* C15: for every debug value outside none, query, timing, results, all, lookup and
\* bulk lookup end in a validation error and nothing is sent to Solr; every value
\* inside the set other than none is passed unmodified as the debug parameter of
\* each request to Solr, and for none no debug parameter is sent.
C15_DebugValidatedAndPassedThrough ==
    (pc # "idle" /\ req.kind \in {"lookup", "bulk"} /\ req.debug # None) =>
        IF req.debug[1] \notin DebugValues
        THEN pc = "invalid" /\ error # None /\ sent = <<>> /\ reply = None
        ELSE /\ pc # "invalid"
             /\ \A i \in 1..Len(sent) :
                    IF req.debug[1] = "none"
                    THEN ~Has(sent[i].params, "debug")
                    ELSE Has(sent[i].params, "debug") /\ sent[i].params["debug"] = req.debug[1]

C15_Witness ==
    /\ pc = "invalid"
    /\ req.kind = "bulk"
    /\ Len(req.strings) = 2
    /\ req.debug = <<"verbose">>
    /\ sent = <<>>

\* A valid level other than none reaches Solr with every request of a bulk lookup.
DebugLevelSentWithEveryRequest ==
    /\ pc = "done"
    /\ req.kind = "bulk"
    /\ req.debug = <<"timing">>
    /\ Len(sent) = 2


-----------------------------------------------------------------------------
(* Paging and order of the results (SpecPaging). *)

NonIncreasing(scores) == \A i \in 1..(Len(scores) - 1) : scores[i] >= scores[i + 1]

\* C16: lookup returns exactly one result per document of the Solr response, in
\* Solr's order, and passes the request's offset and limit unchanged to Solr; so
\* when Solr returns at most limit documents in non-increasing score order, the
\* result list has at most limit entries in non-increasing score order.
C16_OneResultPerDocInOrder ==
    /\ (Handled /\ req.kind = "lookup" /\ ~IsBlank(req.strings[1])) =>
           /\ Len(sent) = 1
           /\ sent[1].limit = req.limit
           /\ sent[1].offset = req.offset
    /\ Projected =>
           /\ Len(reply[1]) = Len(RespDocs)
           /\ \A i \in 1..Len(RespDocs) :
                  /\ reply[1][i].score = RespDocs[i].score
                  /\ reply[1][i].curie = Get(RespDocs[i], "curie", "")
                  /\ reply[1][i].label = Get(RespDocs[i], "preferred_name", "")
           /\ (Len(RespDocs) <= req.limit
                   /\ NonIncreasing([i \in 1..Len(RespDocs) |-> RespDocs[i].score])) =>
                  /\ Len(reply[1]) <= req.limit
                  /\ NonIncreasing([i \in 1..Len(reply[1]) |-> reply[1][i].score])

C16_Witness ==
    /\ Projected
    /\ req.limit = 2
    /\ req.offset = 1
    /\ sent[1].limit = 2
    /\ sent[1].offset = 1
    /\ Len(reply[1]) = 2
    /\ reply[1][1].score > reply[1][2].score


-----------------------------------------------------------------------------
(* Concurrent lookups (SpecConcurrent). *)

\* The request a lookup with parameters rq sends when it runs alone.
AloneParams(rq) ==
    LET string_lc == normalize(rq.strings[1])
    IN solr_params(compose_query(escape_groupings(string_lc), escape_everything(string_lc),
                                 rq.autocomplete),
                   rq.limit, rq.offset,
                   build_filters(rq.biolink_types, rq.only_prefixes, rq.exclude_prefixes,
                                 rq.only_taxa),
                   inner_params(rq.highlighting, rq.debug))

\* The results a lookup with parameters rq can return when it runs alone and Solr
\* answers with response.
AloneResults(rq, response) ==
    {project(response.json, rq, orders, pydanticCopies) :
        orders \in OrderChoices(response.json["response"]["docs"],
                                Get(response.json, "highlighting", EmptyDict))}

-----------------------------------------------------------------------------
(* The status report (SpecStatus). *)

\* status has answered and Solr's admin status listed the expected core.
CoreReported ==
    /\ pc = "done"
    /\ req.kind = "status"
    /\ Has(resp.json, "status")
    /\ Has(resp.json["status"], "name_lookup_shard1_replica_n1")

ReportedIndex == Get(resp.json["status"]["name_lookup_shard1_replica_n1"], "index", EmptyDict)

\* C18: when Solr's admin status lists the expected core, status returns status
\* 'ok' with a non-empty message and a record with the fields babel_version,
\* babel_version_url, biolink_model (which has a tag), nameres_version, version,
\* size, startTime, numDocs, maxDocs and deletedDocs, the counts being those Solr
\* reports for that core.
C18_StatusReportHasAllFields ==
    CoreReported =>
        /\ reply[1]["status"] = "ok"
        /\ reply[1]["message"] # ""
        /\ {"babel_version", "babel_version_url", "biolink_model", "nameres_version",
            "version", "size", "startTime", "numDocs", "maxDocs", "deletedDocs"}
               \subseteq DOMAIN reply[1]
        /\ Has(reply[1]["biolink_model"], "tag")
        /\ \A k \in {"numDocs", "deletedDocs"} :
               Has(ReportedIndex, k) => reply[1][k] = ReportedIndex[k]
        /\ Has(ReportedIndex, "maxDoc") => reply[1]["maxDocs"] = ReportedIndex["maxDoc"]

\* What the report of the expected core does hold.
StatusReportOfTheCode ==
    CoreReported =>
        /\ reply[1]["status"] = "ok"
        /\ reply[1]["message"] # ""
        /\ DOMAIN reply[1] =
               {"status", "message", "babel_version", "babel_version_url", "startTime",
                "numDocs", "maxDoc", "deletedDocs", "version", "segmentCount",
                "lastModified", "size"}
        /\ \A k \in DOMAIN ReportedIndex : reply[1][k] = ReportedIndex[k]


-----------------------------------------------------------------------------
(* The debug payload of each result (Spec). *)

\* C19: within one lookup, replacing the explain sub-field of the debug payload
\* for one result does not affect another: a result without an explain of its own
\* keeps Solr's original explain map in its debug payload, wherever it stands in
\* the document order, so debug.explain is the placeholder if and only if the
\* result carries an explain.
C19_PlaceholderOnlyOnExplainedResults ==
    (Projected /\ Has(resp.json, "debug") /\ Has(resp.json["debug"], "explain")) =>
        \A i \in 1..Len(reply[1]) :
            /\ reply[1][i].debug # None
            /\ Has(reply[1][i].debug[1], "explain")
            /\ reply[1][i].debug[1]["explain"] = Placeholder <=> reply[1][i].explain # None
            /\ reply[1][i].explain = None =>
                   reply[1][i].debug[1]["explain"] = resp.json["debug"]["explain"]


-----------------------------------------------------------------------------
(* What the fully-escaped variant leaves alone (SpecQuery). *)

\* Read left to right, every backslash of s starts an escape pair whose second
\* character is a special character: no other character has a backslash before it.
RECURSIVE OnlySpecialsEscaped(_)
OnlySpecialsEscaped(s) ==
    IF s = <<>> THEN TRUE
    ELSE IF Head(s) = "\\"
    THEN Len(s) >= 2 /\ s[2] \in SpecialCharacters /\ OnlySpecialsEscaped(SubSeq(s, 3, Len(s)))
    ELSE OnlySpecialsEscaped(Tail(s))

\* C20: the fully-escaped variant has a backslash only before the characters
\* ! ( ) { } [ ] ^ " ~ * ? : / + - \ ; every other character of the normalized text
\* (letters, digits, spaces, punctuation such as . , ; < = > @) is copied unchanged
\* with no backslash added.
C20_OnlyListedCharactersEscaped ==
    Constructed => OnlySpecialsEscaped(frame.string_lc_escape_everything)


-----------------------------------------------------------------------------
(* Failure inside a bulk lookup (SpecBulk). *)

NonBlankUpTo(i) == {j \in 1..i : ~IsBlank(req.strings[j])}

\* A bulk lookup whose lookup of the idx-th string ended in an exception.
BulkFailed == pc = "failed" /\ req.kind = "bulk"

BulkFailedAtomically ==
    /\ (error # None /\ req.kind = "bulk") => pc = "failed"
    /\ BulkFailed =>
          /\ error # None
          /\ solr_error(resp.status_code)
          /\ idx \in 1..Len(req.strings)
          /\ ~IsBlank(req.strings[idx])
          /\ reply = None
          /\ Len(returned) = idx - 1
          /\ Len(sent) = Cardinality(NonBlankUpTo(idx))

\* C21: if the Solr call for the i-th string of a bulk lookup fails, the bulk
\* lookup fails as a whole: no mapping is returned, not even the entries of the
\* strings before the i-th that succeeded, and no request is sent to Solr for any
\* string after the i-th: the failed bulk lookup takes no further step.
C21_BulkFailsAsAWhole == [](BulkFailedAtomically) /\ [][~BulkFailed]_vars

C21_Witness ==
    /\ BulkFailed
    /\ Len(req.strings) = 3
    /\ idx = 2
    /\ Len(returned) = 1
    /\ returned[1] # <<>>
    /\ Len(sent) = 2
    /\ reply = None

====
